---- MODULE Spec2Model ----
(***************************************************************************)
(* Model of pyimof/util.py: the multiresolution scaffolding of the optical *)
(* flow estimators (forward_diff, warp, upscale_flow, get_pyramid and      *)
(* coarse_to_fine).                                                        *)
(*                                                                         *)
(* Grids are sequences of rows (g[i][j], 1-based).  Flow values and warped *)
(* intensities are exact rationals <<n, d>> in lowest terms with d > 0, so *)
(* that the scale factors shape[0]/nl and the bilinear weights are exact.  *)
(* Pyramid images are kept by provenance: which input they were reduced    *)
(* from, how many reductions were applied, their shape and their dtype.    *)
(***************************************************************************)
EXTENDS Integers, Sequences, FiniteSets, TLC

VARIABLES fn, pc, cI0, cI1, I0, I1, downscale, min_size, pyramid, size,
          cpyramid, u, v, lvl, log, grid, shape, ret, err

vars == <<fn, pc, cI0, cI1, I0, I1, downscale, min_size, pyramid, size,
          cpyramid, u, v, lvl, log, grid, shape, ret, err>>

(***************************************************************************)
(* Bounds of the explored inputs.                                          *)
(***************************************************************************)
\* largest side of the images handed directly to get_pyramid
MaxDim == 6
\* largest min_size handed directly to get_pyramid
MaxMinSize == 3
\* largest side of the grids handed to forward_diff, warp and upscale_flow
MaxGrid == 3
\* largest sample / flow magnitude
MaxC == 2
\* cap on the number of pyramid levels that are built
MaxLevels == 7

\* default of get_pyramid's min_size parameter
DefaultMinSize == 16

(***************************************************************************)
(* Exact rational arithmetic.                                              *)
(***************************************************************************)
Abs(n) == IF n < 0 THEN -n ELSE n

RECURSIVE Gcd(_, _)
Gcd(a, b) == IF b = 0 THEN a ELSE Gcd(b, a % b)

Norm(n, d) == IF n = 0 THEN <<0, 1>>
              ELSE LET g == Gcd(Abs(n), d) IN <<n \div g, d \div g>>

R(n) == <<n, 1>>
RAdd(a, b) == Norm(a[1] * b[2] + b[1] * a[2], a[2] * b[2])
RSub(a, b) == Norm(a[1] * b[2] - b[1] * a[2], a[2] * b[2])
RMul(a, b) == Norm(a[1] * b[1], a[2] * b[2])
RLeq(a, b) == a[1] * b[2] <= b[1] * a[2]
RFloor(a) == a[1] \div a[2]
Frac(n, d) == Norm(n, d)

Min2(a, b) == IF a <= b THEN a ELSE b

(***************************************************************************)
(* Grids.                                                                  *)
(***************************************************************************)
Shape(g) == <<Len(g), Len(g[1])>>
Full(s, c) == [i \in 1..s[1] |-> [j \in 1..s[2] |-> c]]
IsFull(g, c) == \A i \in 1..Len(g) : \A j \in 1..Len(g[i]) : g[i][j] = c
Scale(k, g) == [i \in 1..Len(g) |-> [j \in 1..Len(g[i]) |-> RMul(k, g[i][j])]]
Impulse(s, a, b, c) ==
    [i \in 1..s[1] |-> [j \in 1..s[2] |-> IF i = a /\ j = b THEN c ELSE 0]]
Ramp(s) == [i \in 1..s[1] |-> [j \in 1..s[2] |-> (i - 1) * s[2] + j]]
Pattern(s) == [i \in 1..s[1] |-> [j \in 1..s[2] |-> R((i + 2 * j) % 3)]]

GridShapes == (1..MaxGrid) \X (1..MaxGrid)
IntGrids(s) == {Full(s, c) : c \in 0..MaxC}
               \cup {Impulse(s, a, b, MaxC + 2) : a \in 1..s[1], b \in 1..s[2]}
               \cup {Ramp(s)}

(***************************************************************************)
(* Images of the pyramid.                                                  *)
(***************************************************************************)
Img(src, shp, dtype) == [src |-> src, shape |-> shp, dtype |-> dtype, lvl |-> 0]
NoImg == Img("", <<>>, "")
ndim(I) == Len(I.shape)

NoErr == [type |-> "", msg |-> ""]
ShapeMismatch == [type |-> "ValueError", msg |-> "Images should have the same size"]
DimensionalityError == [type |-> "ValueError", msg |-> "Images should be grayscale."]
IndexError == [type |-> "IndexError", msg |-> "index -2 is out of bounds"]
SolverError == [type |-> "SolverError", msg |-> "solver failed"]

(***************************************************************************)
(* forward_diff (lines 13-25).  The slices p[:, :-1] and p[:, 1:] are the  *)
(* columns 1..nc-1 and 2..nc; the index -2 of lines 19 and 23 does not     *)
(* exist on an axis of length 1 and numpy raises IndexError there.         *)
(***************************************************************************)
\* p_x = p.copy(); p_x[:, :-1] -= p[:, 1:]
DiffCols(p) ==
    [i \in 1..Len(p) |-> [j \in 1..Len(p[i]) |->
        IF j < Len(p[i]) THEN p[i][j] - p[i][j + 1] ELSE p[i][j]]]

\* p_y = p.copy(); p_y[:-1, :] -= p[1:, :]
DiffRows(p) ==
    [i \in 1..Len(p) |-> [j \in 1..Len(p[i]) |->
        IF i < Len(p) THEN p[i][j] - p[i + 1][j] ELSE p[i][j]]]

\* the edge rule left out: the last column keeps the copied samples
KeepLastCol(d) == d

\* p_x[:, -1] = p_x[:, -2]
ReplicateLastCol(d) ==
    [i \in 1..Len(d) |-> [j \in 1..Len(d[i]) |->
        IF j = Len(d[i]) THEN d[i][j - 1] ELSE d[i][j]]]

\* p_y[-1, :] = p_y[-2, :]
ReplicateLastRow(d) ==
    [i \in 1..Len(d) |-> [j \in 1..Len(d[i]) |->
        IF i = Len(d) THEN d[i - 1][j] ELSE d[i][j]]]

forward_diff(p) ==
    IF Len(p[1]) < 2 \/ Len(p) < 2
    THEN [ok |-> FALSE, val |-> <<>>, err |-> IndexError]
    ELSE [ok |-> TRUE,
          val |-> <<ReplicateLastCol(DiffCols(p)), ReplicateLastRow(DiffRows(p))>>,
          err |-> NoErr]

(***************************************************************************)
(* warp (lines 43-51) with x = y = None.  The coordinate grids are         *)
(* arange(n) - 0.5; map_coordinates(order=1, mode='nearest') clamps each   *)
(* coordinate to [0, n-1] and interpolates linearly between the two        *)
(* neighbouring samples.                                                   *)
(***************************************************************************)
\* np.arange(n) - 0.5 at the 1-based index i
BaseCoord(i) == Frac(2 * (i - 1) - 1, 2)

\* mode='nearest': the coordinate is clamped to the valid range
Clamp(c, n) == IF RLeq(c, R(0)) THEN R(0)
               ELSE IF RLeq(R(n - 1), c) THEN R(n - 1) ELSE c

\* order=1 interpolation of I at the 0-based real coordinate (y, x)
Bilinear(I, y, x) ==
    LET nl == Len(I)
        nc == Len(I[1])
        yc == Clamp(y, nl)
        xc == Clamp(x, nc)
        y0 == RFloor(yc)
        x0 == RFloor(xc)
        y1 == Min2(y0 + 1, nl - 1)
        x1 == Min2(x0 + 1, nc - 1)
        fy == RSub(yc, R(y0))
        fx == RSub(xc, R(x0))
        gy == RSub(R(1), fy)
        gx == RSub(R(1), fx)
        top == RAdd(RMul(gx, R(I[y0 + 1][x0 + 1])), RMul(fx, R(I[y0 + 1][x1 + 1])))
        bot == RAdd(RMul(gx, R(I[y1 + 1][x0 + 1])), RMul(fx, R(I[y1 + 1][x1 + 1])))
    IN  RAdd(RMul(gy, top), RMul(fy, bot))

warp(I, uu, vv) ==
    [i \in 1..Len(I) |-> [j \in 1..Len(I[1]) |->
        Bilinear(I, RAdd(BaseCoord(i), vv[i][j]), RAdd(BaseCoord(j), uu[i][j]))]]

(***************************************************************************)
(* upscale_flow (lines 54-67).  resize(order=0, anti_aliasing=False) is    *)
(* nearest-neighbour sampling: the output sample o (0-based) of an axis    *)
(* resized from n_in to n_out reads the input at (o + 0.5) * n_in / n_out  *)
(* - 0.5 rounded to the nearest index, i.e. floor((2o+1) n_in / (2 n_out)).*)
(***************************************************************************)
ResizeIndex(o, nin, nout) == ((2 * (o - 1) + 1) * nin) \div (2 * nout) + 1

\* the resampling left out: the grid keeps its shape
NoResize(g, s) == g

resize(g, s) ==
    [i \in 1..s[1] |-> [j \in 1..s[2] |->
        g[ResizeIndex(i, Len(g), s[1])][ResizeIndex(j, Len(g[1]), s[2])]]]

\* the two scale factors applied to the wrong components
upscale_flow_swapped(uu, vv, s) ==
    LET nl == Len(uu)
        nc == Len(uu[1])
        sy == Frac(s[1], nl)
        sx == Frac(s[2], nc)
    IN  <<Scale(sy, resize(uu, s)), Scale(sx, resize(vv, s))>>

upscale_flow(uu, vv, s) ==
    LET nl == Len(uu)
        nc == Len(uu[1])
        sy == Frac(s[1], nl)
        sx == Frac(s[2], nc)
    IN  <<Scale(sx, resize(uu, s)), Scale(sy, resize(vv, s))>>

(***************************************************************************)
(* get_pyramid and coarse_to_fine helpers.                                 *)
(***************************************************************************)
\* math.ceil(n / downscale) for downscale = d[1] / d[2]
CeilDiv(n, d) == (n * d[2] + d[1] - 1) \div d[1]

\* skimage.img_as_float32: same samples and shape, dtype float32
img_as_float32(I) == [I EXCEPT !.dtype = "float32"]

\* pyramid_reduce(image, downscale, multichannel=False): every axis n
\* becomes ceil(n / downscale); the result is a float image
pyramid_reduce(I, d) ==
    [src |-> I.src,
     shape |-> [k \in 1..Len(I.shape) |-> CeilDiv(I.shape[k], d)],
     dtype |-> IF I.dtype = "float32" THEN "float32" ELSE "float64",
     lvl |-> I.lvl + 1]

\* min(I.shape[:2])
MinSide(I) == IF Len(I.shape) = 1 THEN I.shape[1] ELSE Min2(I.shape[1], I.shape[2])

\* the reversal left out: the build order is returned
Unreversed(s) == s

\* pyramid[::-1]
Reverse(s) == [i \in 1..Len(s) |-> s[Len(s) + 1 - i]]

\* only the first image is tested
FirstIsGrayscale(A, B) == ndim(A) = 2

\* not ((I0.ndim != 2) or (I1.ndim != 2))
IsGrayscale(A, B) == ~((ndim(A) # 2) \/ (ndim(B) # 2))

\* a grid of ones instead of zeros
ones_like(s) == Full(s, R(1))

\* np.zeros_like(a) for an array of shape s
zeros_like(s) == Full(s, R(0))

\* every level is iterated, the coarsest one again
AllLevels(p) == p

\* pyramid[1:]
FinerLevels(p) == Tail(p)

\* the solver's exception swallowed
AfterSolveSwallow(r) == "c2f_loop"

\* the statement after a solver call: an exception leaves coarse_to_fine
AfterSolve(r) == IF r.ok THEN "c2f_loop" ELSE "raised"

(***************************************************************************)
(* The injected solver is opaque: each invocation may return its input     *)
(* flow, some other flow of the same shape, a flow of another shape, or    *)
(* raise.                                                                  *)
(***************************************************************************)
SolverOutcomes(J0, J1, uu, vv) ==
    { [ok |-> TRUE, u |-> uu, v |-> vv, err |-> NoErr],
      [ok |-> TRUE, u |-> Full(Shape(uu), R(1)), v |-> Full(Shape(vv), R(-2)), err |-> NoErr],
      [ok |-> TRUE, u |-> Pattern(Shape(uu)), v |-> Pattern(Shape(vv)), err |-> NoErr],
      [ok |-> TRUE, u |-> Full(<<2, 1>>, R(1)), v |-> Full(<<2, 1>>, R(1)), err |-> NoErr],
      [ok |-> FALSE, u |-> <<>>, v |-> <<>>, err |-> SolverError] }

\* the record of one solver invocation
Invocation(J0, J1, uu, vv, r) ==
    [J0 |-> J0, J1 |-> J1, u |-> uu, v |-> vv,
     ok |-> r.ok, ru |-> r.u, rv |-> r.v, err |-> r.err]

(***************************************************************************)
(* Inputs.                                                                 *)
(***************************************************************************)
\* downscale factors as fractions: 2.0, 1.5 and 3.0
Downscales == {<<2, 1>>, <<3, 2>>, <<3, 1>>}

PyramidShapes == (1..MaxDim) \X (1..MaxDim)

\* shapes of the images handed to coarse_to_fine: one to five levels under
\* the default min_size (among them 32x32 and 64x64), a 1-D and a 3-D image
C2FShapes == {<<DefaultMinSize, DefaultMinSize>>,
              <<DefaultMinSize + 1, DefaultMinSize + 4>>,
              <<DefaultMinSize + 9, DefaultMinSize + 9>>,
              <<2 * DefaultMinSize, 2 * DefaultMinSize>>,
              <<4 * DefaultMinSize, 4 * DefaultMinSize>>,
              <<DefaultMinSize + 1>>,
              <<DefaultMinSize + 1, DefaultMinSize + 1, 3>>}

C2FPairs == C2FShapes \X C2FShapes

FlowValues == {R(c) : c \in -1..MaxC}

\* a call get_pyramid(I0, I1, downscale, min_size)
InitGetPyramid ==
    /\ fn = "get_pyramid" /\ pc = "gp_start"
    /\ \E s \in PyramidShapes :
         /\ I0 = Img("I0", s, "float64")
         /\ \E t \in {s, <<s[1] + 1, s[2]>>, <<s[2] + 1, s[1] + 1>>} :
                I1 = Img("I1", t, "float64")
    /\ downscale \in Downscales
    /\ min_size \in 0..MaxMinSize
    /\ cI0 = NoImg /\ cI1 = NoImg
    /\ pyramid = <<>> /\ size = 0 /\ cpyramid = <<>>
    /\ u = <<>> /\ v = <<>> /\ lvl = 0 /\ log = <<>>
    /\ grid = <<>> /\ shape = <<>> /\ ret = <<>> /\ err = NoErr

\* a call coarse_to_fine(I0, I1, solver, downscale)
InitCoarseToFine ==
    /\ fn = "coarse_to_fine" /\ pc = "c2f_start"
    /\ \E q \in C2FPairs :
         /\ cI0 = Img("I0", q[1], "uint8")
         /\ cI1 = Img("I1", q[2], "uint8")
    /\ downscale \in Downscales
    /\ min_size = DefaultMinSize
    /\ I0 = NoImg /\ I1 = NoImg
    /\ pyramid = <<>> /\ size = 0 /\ cpyramid = <<>>
    /\ u = <<>> /\ v = <<>> /\ lvl = 0 /\ log = <<>>
    /\ grid = <<>> /\ shape = <<>> /\ ret = <<>> /\ err = NoErr

\* a call upscale_flow(u, v, shape)
InitUpscaleFlow ==
    /\ fn = "upscale_flow" /\ pc = "uf_start"
    /\ \E s \in GridShapes :
         \/ \E c1 \in FlowValues, c2 \in FlowValues :
                u = Full(s, c1) /\ v = Full(s, c2)
         \/ u = Pattern(s) /\ v = Full(s, R(1))
    /\ shape \in GridShapes
    /\ cI0 = NoImg /\ cI1 = NoImg /\ I0 = NoImg /\ I1 = NoImg
    /\ downscale = <<2, 1>> /\ min_size = DefaultMinSize
    /\ pyramid = <<>> /\ size = 0 /\ cpyramid = <<>>
    /\ lvl = 0 /\ log = <<>> /\ grid = <<>> /\ ret = <<>> /\ err = NoErr

\* a call warp(I, u, v) with uniform displacements
InitWarp ==
    /\ fn = "warp" /\ pc = "warp_start"
    /\ \E s \in GridShapes :
         /\ grid \in IntGrids(s)
         /\ \E c1 \in {R(0), R(-1), Frac(1, 2)}, c2 \in {R(0), R(-1), Frac(1, 2)} :
                u = Full(s, c1) /\ v = Full(s, c2)
    /\ cI0 = NoImg /\ cI1 = NoImg /\ I0 = NoImg /\ I1 = NoImg
    /\ downscale = <<2, 1>> /\ min_size = DefaultMinSize
    /\ pyramid = <<>> /\ size = 0 /\ cpyramid = <<>>
    /\ lvl = 0 /\ log = <<>> /\ shape = <<>> /\ ret = <<>> /\ err = NoErr

\* a call forward_diff(p)
InitForwardDiff ==
    /\ fn = "forward_diff" /\ pc = "fd_start"
    /\ \E s \in GridShapes : grid \in IntGrids(s)
    /\ cI0 = NoImg /\ cI1 = NoImg /\ I0 = NoImg /\ I1 = NoImg
    /\ downscale = <<2, 1>> /\ min_size = DefaultMinSize
    /\ pyramid = <<>> /\ size = 0 /\ cpyramid = <<>>
    /\ u = <<>> /\ v = <<>> /\ lvl = 0 /\ log = <<>>
    /\ shape = <<>> /\ ret = <<>> /\ err = NoErr

(***************************************************************************)
(* get_pyramid (lines 70-87).                                              *)
(***************************************************************************)
\* lines 75-79: the shape test, the first level and its size
GetPyramidEnter ==
    /\ pc = "gp_start"
    /\ IF I0.shape # I1.shape
       THEN /\ pc' = "raised"
            /\ err' = ShapeMismatch
            /\ UNCHANGED <<pyramid, size>>
       ELSE /\ pc' = "gp_loop"
            /\ pyramid' = <<<<I0, I1>>>>
            /\ size' = MinSide(I0)
            /\ UNCHANGED err
    /\ UNCHANGED <<fn, cI0, cI1, I0, I1, downscale, min_size, cpyramid,
                   u, v, lvl, log, grid, shape, ret>>

\* lines 81-85: one iteration of the reduction loop
GetPyramidReduce ==
    /\ pc = "gp_loop"
    /\ size > min_size
    /\ Len(pyramid) < MaxLevels
    /\ LET J0 == pyramid_reduce(pyramid[Len(pyramid)][1], downscale)
           J1 == pyramid_reduce(pyramid[Len(pyramid)][2], downscale)
       IN  /\ pyramid' = Append(pyramid, <<J0, J1>>)
           /\ size' = MinSide(J0)
    /\ UNCHANGED <<fn, pc, cI0, cI1, I0, I1, downscale, min_size, cpyramid,
                   u, v, lvl, log, grid, shape, ret, err>>

\* line 87: the loop is left and the reversed list goes to the caller
GetPyramidReturn ==
    /\ pc = "gp_loop"
    /\ ~(size > min_size)
    /\ IF fn = "coarse_to_fine"
       THEN /\ cpyramid' = Reverse(pyramid)
            /\ pc' = "c2f_init"
            /\ UNCHANGED ret
       ELSE /\ ret' = Reverse(pyramid)
            /\ pc' = "returned"
            /\ UNCHANGED cpyramid
    /\ UNCHANGED <<fn, cI0, cI1, I0, I1, downscale, min_size, pyramid, size,
                   u, v, lvl, log, grid, shape, err>>

(***************************************************************************)
(* coarse_to_fine (lines 90-110).                                          *)
(***************************************************************************)
\* lines 95-99: the dimensionality test and the call of get_pyramid
CoarseToFineEnter ==
    /\ pc = "c2f_start"
    /\ IF ~IsGrayscale(cI0, cI1)
       THEN /\ pc' = "raised"
            /\ err' = DimensionalityError
            /\ UNCHANGED <<I0, I1>>
       ELSE /\ pc' = "gp_start"
            /\ I0' = img_as_float32(cI0)
            /\ I1' = img_as_float32(cI1)
            /\ UNCHANGED err
    /\ UNCHANGED <<fn, cI0, cI1, downscale, min_size, pyramid, size, cpyramid,
                   u, v, lvl, log, grid, shape, ret>>

\* lines 101-104: the zero flow and the solver on the coarsest level
CoarseToFineFirst ==
    /\ pc = "c2f_init"
    /\ LET J0 == cpyramid[1][1]
           J1 == cpyramid[1][2]
       IN  \E u0 \in {zeros_like(J0.shape)} :
           \E v0 \in {zeros_like(Shape(u0))} :
           \E r \in SolverOutcomes(J0, J1, u0, v0) :
             /\ log' = Append(log, Invocation(J0, J1, u0, v0, r))
             /\ pc' = AfterSolve(r)
             /\ IF r.ok
                THEN u' = r.u /\ v' = r.v /\ err' = err
                ELSE u' = u0 /\ v' = v0 /\ err' = r.err
    /\ lvl' = 1
    /\ UNCHANGED <<fn, cI0, cI1, I0, I1, downscale, min_size, pyramid, size,
                   cpyramid, grid, shape, ret>>

\* lines 106-108: one iteration over pyramid[1:]
CoarseToFineLevel ==
    /\ pc = "c2f_loop"
    /\ lvl <= Len(FinerLevels(cpyramid))
    /\ LET J0 == FinerLevels(cpyramid)[lvl][1]
           J1 == FinerLevels(cpyramid)[lvl][2]
       IN  \E f \in {upscale_flow(u, v, J0.shape)} :
           \E r \in SolverOutcomes(J0, J1, f[1], f[2]) :
             /\ log' = Append(log, Invocation(J0, J1, f[1], f[2], r))
             /\ pc' = AfterSolve(r)
             /\ IF r.ok
                THEN u' = r.u /\ v' = r.v /\ err' = err
                ELSE u' = f[1] /\ v' = f[2] /\ err' = r.err
    /\ lvl' = lvl + 1
    /\ UNCHANGED <<fn, cI0, cI1, I0, I1, downscale, min_size, pyramid, size,
                   cpyramid, grid, shape, ret>>

\* line 110: the loop is exhausted
CoarseToFineReturn ==
    /\ pc = "c2f_loop"
    /\ lvl > Len(FinerLevels(cpyramid))
    /\ ret' = <<u, v>>
    /\ pc' = "returned"
    /\ UNCHANGED <<fn, cI0, cI1, I0, I1, downscale, min_size, pyramid, size,
                   cpyramid, u, v, lvl, log, grid, shape, err>>

(***************************************************************************)
(* The calls of the pure functions.                                        *)
(***************************************************************************)
UpscaleFlow ==
    /\ pc = "uf_start"
    /\ ret' = upscale_flow(u, v, shape)
    /\ pc' = "returned"
    /\ UNCHANGED <<fn, cI0, cI1, I0, I1, downscale, min_size, pyramid, size,
                   cpyramid, u, v, lvl, log, grid, shape, err>>

Warp ==
    /\ pc = "warp_start"
    /\ ret' = warp(grid, u, v)
    /\ pc' = "returned"
    /\ UNCHANGED <<fn, cI0, cI1, I0, I1, downscale, min_size, pyramid, size,
                   cpyramid, u, v, lvl, log, grid, shape, err>>

ForwardDiff ==
    /\ pc = "fd_start"
    /\ LET r == forward_diff(grid)
       IN  /\ ret' = r.val
           /\ err' = r.err
           /\ pc' = IF r.ok THEN "returned" ELSE "raised"
    /\ UNCHANGED <<fn, cI0, cI1, I0, I1, downscale, min_size, pyramid, size,
                   cpyramid, u, v, lvl, log, grid, shape>>

(***************************************************************************)
(* One specification per entry point of the module.                        *)
(***************************************************************************)
NextGetPyramid == \/ GetPyramidEnter
                  \/ GetPyramidReduce
                  \/ GetPyramidReturn

\* the interpreter always executes the next statement of a running call
SpecGetPyramid == InitGetPyramid /\ [][NextGetPyramid]_vars /\ WF_vars(NextGetPyramid)

NextCoarseToFine == \/ CoarseToFineEnter
                    \/ GetPyramidEnter
                    \/ GetPyramidReduce
                    \/ GetPyramidReturn
                    \/ CoarseToFineFirst
                    \/ CoarseToFineLevel
                    \/ CoarseToFineReturn

SpecCoarseToFine == InitCoarseToFine /\ [][NextCoarseToFine]_vars

SpecUpscaleFlow == InitUpscaleFlow /\ [][UpscaleFlow]_vars

SpecWarp == InitWarp /\ [][Warp]_vars

SpecForwardDiff == InitForwardDiff /\ [][ForwardDiff]_vars

TypeOK == /\ fn \in {"get_pyramid", "coarse_to_fine", "upscale_flow", "warp", "forward_diff"}
          /\ pc \in {"gp_start", "gp_loop", "c2f_start", "c2f_init", "c2f_loop",
                     "uf_start", "warp_start", "fd_start", "returned", "raised"}

(***************************************************************************)
(* Properties.                                                             *)
(***************************************************************************)
Uniform(g) == \E c \in FlowValues : IsFull(g, c)
UniformValue(g) == g[1][1]
SameFlowBack(e) == e.ok /\ e.ru = e.u /\ e.rv = e.v

\* C1: whenever get_pyramid returns, the result is a non-empty list ordered
\* coarsest-first (level k of the result is the input reduced Len - k times
\* and no side grows towards the front), its last element is the input pair
\* with the input shape, the smaller side of its first element is at most
\* min_size, and the smaller side of its second element, if there is one,
\* exceeds min_size.
C1_PyramidPostcondition ==
    (fn = "get_pyramid" /\ pc = "returned") =>
        /\ Len(ret) >= 1
        /\ ret[Len(ret)] = <<I0, I1>>
        /\ ret[Len(ret)][1].shape = I0.shape
        /\ ret[Len(ret)][2].shape = I1.shape
        /\ \A k \in 1..Len(ret) :
              /\ ret[k][1].lvl = Len(ret) - k
              /\ ret[k][2].lvl = Len(ret) - k
              /\ ret[k][1].src = "I0" /\ ret[k][2].src = "I1"
        /\ \A k \in 1..(Len(ret) - 1) : \A a \in 1..2 :
              ret[k][1].shape[a] <= ret[k + 1][1].shape[a]
        /\ MinSide(ret[1][1]) <= min_size
        /\ (Len(ret) > 1 => MinSide(ret[2][1]) > min_size)

C1_Witness ==
    /\ fn = "get_pyramid" /\ pc = "returned"
    /\ Len(ret) >= 3
    /\ I0.shape[1] # I0.shape[2]

\* C2: the solver invocations made so far are on the pyramid levels 1, 2, ...
\* in that order, one each; when coarse_to_fine has returned there is exactly
\* one invocation per level, the first received an all-zero flow, every
\* later one received upscale_flow of the flow the previous one returned,
\* the last level is the full-resolution pair and the returned value is the
\* flow of the last invocation.
C2_OneSolvePerLevelInOrder ==
    (fn = "coarse_to_fine") =>
        /\ \A k \in 1..Len(log) :
              /\ k <= Len(cpyramid)
              /\ log[k].J0 = cpyramid[k][1]
              /\ log[k].J1 = cpyramid[k][2]
              /\ log[k].J0.lvl = Len(cpyramid) - k
        /\ (pc = "returned") =>
              /\ Len(log) = Len(cpyramid)
              /\ \A k \in 1..Len(log) : log[k].ok
              /\ IsFull(log[1].u, R(0)) /\ IsFull(log[1].v, R(0))
              /\ \A k \in 2..Len(log) :
                    \E f \in {upscale_flow(log[k - 1].ru, log[k - 1].rv,
                                            cpyramid[k][1].shape)} :
                        log[k].u = f[1] /\ log[k].v = f[2]
              /\ cpyramid[Len(cpyramid)] = <<img_as_float32(cI0), img_as_float32(cI1)>>
              /\ ret = <<log[Len(log)].ru, log[Len(log)].rv>>

C2_Witness ==
    /\ fn = "coarse_to_fine" /\ pc = "returned"
    /\ Len(log) >= 3
    /\ ~IsFull(log[3].u, R(0))

\* C3: once coarse_to_fine has tested its arguments, a non-2D image means the
\* call has failed with the dimensionality error, and two 2D images of
\* different shapes mean the call is about to fail or has failed with the
\* shape-mismatch error of get_pyramid; in both cases no pyramid level was
\* built, the solver was never invoked and nothing is returned.
C3_InvalidInputRejected ==
    (fn = "coarse_to_fine" /\ pc # "c2f_start") =>
        /\ (ndim(cI0) # 2 \/ ndim(cI1) # 2) =>
              /\ pc = "raised" /\ err = DimensionalityError
              /\ pyramid = <<>> /\ cpyramid = <<>> /\ log = <<>> /\ ret = <<>>
        /\ (ndim(cI0) = 2 /\ ndim(cI1) = 2 /\ cI0.shape # cI1.shape) =>
              /\ pc = "gp_start" \/ (pc = "raised" /\ err = ShapeMismatch)
              /\ pyramid = <<>> /\ cpyramid = <<>> /\ log = <<>> /\ ret = <<>>

C3_Witness ==
    /\ fn = "coarse_to_fine" /\ pc = "raised" /\ err = ShapeMismatch
    /\ cI0.shape = <<64, 64>> /\ cI1.shape = <<32, 32>>

\* C4: if some solver invocation of coarse_to_fine has failed, it is the last
\* invocation ever made, the call has ended with exactly the solver's error
\* and no flow is returned.
C4_SolverFailureAborts ==
    (fn = "coarse_to_fine") =>
        \A k \in 1..Len(log) :
            ~log[k].ok =>
                /\ k = Len(log)
                /\ pc = "raised"
                /\ err = log[k].err
                /\ ret = <<>>

C4_Witness ==
    /\ fn = "coarse_to_fine" /\ pc = "raised"
    /\ Len(log) >= 2
    /\ ~log[Len(log)].ok
    /\ ~IsFull(log[Len(log)].u, R(0))

\* C5: when coarse_to_fine returns and every solver invocation gave back the
\* flow it received, the returned u and v are all zero and have the shape of
\* the input images.
C5_IdentitySolverZeroFlow ==
    (/\ fn = "coarse_to_fine" /\ pc = "returned"
     /\ \A k \in 1..Len(log) : SameFlowBack(log[k])) =>
        /\ ret[1] = Full(cI0.shape, R(0))
        /\ ret[2] = Full(cI0.shape, R(0))
        /\ Shape(ret[1]) = cI1.shape

C5_Witness ==
    /\ fn = "coarse_to_fine" /\ pc = "returned"
    /\ \A k \in 1..Len(log) : SameFlowBack(log[k])
    /\ Len(log) >= 3
    /\ cI0.shape = <<64, 64>>

\* C6: upscale_flow returns two grids of exactly the requested shape, and a
\* uniform flow (c1, c2) of shape (h, w) comes back uniform at
\* (c1 * w' / w, c2 * h' / h) for the requested shape (h', w').
C6_UpscaleFlowScaling ==
    (fn = "upscale_flow" /\ pc = "returned") =>
        /\ Len(ret) = 2
        /\ \A a \in 1..2 :
              /\ Len(ret[a]) = shape[1]
              /\ \A i \in 1..shape[1] : Len(ret[a][i]) = shape[2]
        /\ (Uniform(u) /\ Uniform(v)) =>
              /\ IsFull(ret[1], Frac(UniformValue(u)[1] * shape[2],
                                      UniformValue(u)[2] * Len(u[1])))
              /\ IsFull(ret[2], Frac(UniformValue(v)[1] * shape[1],
                                      UniformValue(v)[2] * Len(v)))

C6_Witness ==
    /\ fn = "upscale_flow" /\ pc = "returned"
    /\ Shape(u) = <<2, 1>> /\ shape = <<3, 3>>
    /\ IsFull(u, R(2)) /\ IsFull(v, R(1))

\* C7: warp with an all-zero flow and no coordinate grids returns a grid of
\* the shape of I whose interior samples equal those of I.
C7_WarpZeroFlowIdentity ==
    (fn = "warp" /\ pc = "returned" /\ IsFull(u, R(0)) /\ IsFull(v, R(0))) =>
        /\ Shape(ret) = Shape(grid)
        /\ \A i \in 2..(Len(grid) - 1) : \A j \in 2..(Len(grid[1]) - 1) :
              ret[i][j] = R(grid[i][j])

\* C8 as stated: forward_diff of a constant grid of any height and width, a
\* single row or column included, returns two all-zero grids of the shape of
\* the input.
C8_ConstantGridAnyShape ==
    (fn = "forward_diff" /\ pc # "fd_start" /\ \E c \in 0..MaxC : IsFull(grid, c)) =>
        /\ pc = "returned"
        /\ Len(ret) = 2
        /\ \A a \in 1..2 : Shape(ret[a]) = Shape(grid) /\ IsFull(ret[a], 0)

\* C8 amended: forward_diff of a constant grid with at least two rows and
\* two columns returns two all-zero grids of the shape of the input, the
\* last row and the last column included.
C8_ConstantGridAtLeast2x2 ==
    (/\ fn = "forward_diff" /\ pc # "fd_start"
     /\ \E c \in 0..MaxC : IsFull(grid, c)
     /\ Len(grid) >= 2 /\ Len(grid[1]) >= 2) =>
        /\ pc = "returned"
        /\ Len(ret) = 2
        /\ \A a \in 1..2 :
              /\ Len(ret[a]) = Len(grid)
              /\ \A i \in 1..Len(grid) :
                    /\ Len(ret[a][i]) = Len(grid[i])
                    /\ \A j \in 1..Len(grid[i]) : ret[a][i][j] = 0

C8_Witness ==
    /\ fn = "forward_diff" /\ pc = "returned"
    /\ Shape(grid) = <<2, 3>>
    /\ IsFull(grid, MaxC)

\* C9: if every solver invocation so far returned a flow of the shape it was
\* given, then at every invocation u and v had the shape of that level's two
\* images, which have the same shape as each other.
C9_FlowShapeMatchesLevel ==
    (/\ fn = "coarse_to_fine"
     /\ \A k \in 1..Len(log) :
           log[k].ok => /\ Shape(log[k].ru) = Shape(log[k].u)
                        /\ Shape(log[k].rv) = Shape(log[k].v)) =>
        \A k \in 1..Len(log) :
            /\ Shape(log[k].u) = log[k].J0.shape
            /\ Shape(log[k].v) = log[k].J0.shape
            /\ \A i \in 1..Len(log[k].u) :
                  /\ Len(log[k].u[i]) = log[k].J0.shape[2]
                  /\ Len(log[k].v[i]) = log[k].J0.shape[2]
            /\ log[k].J0.shape = log[k].J1.shape

C9_Witness ==
    /\ fn = "coarse_to_fine"
    /\ Len(log) >= 3
    /\ \A k \in 1..Len(log) :
          log[k].ok /\ Shape(log[k].ru) = Shape(log[k].u)
                    /\ Shape(log[k].rv) = Shape(log[k].v)
    /\ log[2].ru = Pattern(Shape(log[2].u))
    /\ log[3].J0.shape[1] # 2 * log[2].J0.shape[1]

\* C10: a call of get_pyramid on two images of the same shape with
\* min_size >= 1 (and any downscale > 1) returns after finitely many
\* reductions.  The loop is deterministic in the shape of the newest level,
\* so this requires that no reduction made while the loop goes on
\* (size > min_size) reproduces the shape it was given: such a level is
\* reduced to itself again and again.
C10_GetPyramidTerminates ==
    (/\ fn = "get_pyramid" /\ I0.shape = I1.shape /\ min_size >= 1
     /\ pc = "gp_loop" /\ size > min_size /\ Len(pyramid) >= 2) =>
        pyramid[Len(pyramid)][1].shape # pyramid[Len(pyramid) - 1][1].shape

====
